---------------------------- MODULE Spec2Model ----------------------------
(***************************************************************************)
(* Model of the git fetcher of vendir (pkg/vendir/fetch/git/git.go) and of *)
(* the example round-trip test (test/e2e, example.check).                  *)
(*                                                                         *)
(* A Go string is modelled as a sequence of atoms (single characters or    *)
(* indivisible pieces); concatenation is \o.  A []string is a sequence of  *)
(* such strings.                                                           *)
(***************************************************************************)
EXTENDS Integers, Sequences, FiniteSets, TLC

\* ------------------------------------------------------------- bounds
\* Longest stdout (in characters) a git subprocess prints in the model.
MaxOutLen == 2
\* Number of commits the remote repository holds (sync model).
NCommits == 2
\* Largest number of contents of the synced directory (sync model).
MaxContents == 2

\* ------------------------------------------------------- string helpers
Range(s) == {s[i] : i \in 1..Len(s)}

\* strings.HasPrefix
HasPrefix(s, p) == Len(s) >= Len(p) /\ SubSeq(s, 1, Len(p)) = p

\* unicode.IsSpace on the characters the model uses
IsSpace(c) == c \in {" ", "\n", "\t"}

RECURSIVE TrimLeft(_)
TrimLeft(s) == IF s # <<>> /\ IsSpace(Head(s)) THEN TrimLeft(Tail(s)) ELSE s

RECURSIVE TrimRight(_)
TrimRight(s) ==
    IF s # <<>> /\ IsSpace(s[Len(s)]) THEN TrimRight(SubSeq(s, 1, Len(s) - 1)) ELSE s

\* strings.TrimSpace
TrimSpace(s) == TrimRight(TrimLeft(s))

\* strings.Split(s, sep) for a one-character sep: Split("", sep) is [""]
RECURSIVE Split(_, _)
Split(s, sep) ==
    IF sep \notin Range(s) THEN <<s>>
    ELSE LET i == CHOOSE k \in 1..Len(s) : s[k] = sep /\ \A j \in 1..(k - 1) : s[j] # sep
         IN  <<SubSeq(s, 1, i - 1)>> \o Split(SubSeq(s, i + 1, Len(s)), sep)

\* strings.Join(elems, sep)
RECURSIVE Join(_, _)
Join(elems, sep) ==
    IF elems = <<>> THEN <<>>
    ELSE IF Len(elems) = 1 THEN elems[1]
    ELSE elems[1] \o sep \o Join(Tail(elems), sep)

\* sub occurs in s as a contiguous run
Contains(s, sub) ==
    \E i \in 0..(Len(s) - Len(sub)) : SubSeq(s, i + 1, i + Len(sub)) = sub

\* all strings over alphabet of length at most n
RECURSIVE StringsUpTo(_, _)
StringsUpTo(alphabet, n) ==
    IF n = 0 THEN {<<>>}
    ELSE LET shorter == StringsUpTo(alphabet, n - 1)
         IN  shorter \cup {Append(s, c) : s \in shorter, c \in alphabet}

\* filepath.Join(dir, name)
PathJoin(dir, name) == dir \o <<"/", name>>

\* -------------------------------------------------------------- inputs
HttpsPrefix == <<"h", "t", "t", "p", "s", ":", "/", "/">>

\* candidate values of opts.URL: empty, https, https with an invalid
\* escape (url.Parse fails), http, ssh
URLs ==
    { <<>>,
      HttpsPrefix \o <<"x", "/", "r">>,
      HttpsPrefix \o <<"%">>,
      <<"h", "t", "t", "p", ":", "/", "/", "x">>,
      <<"s", "s", "h", ":", "/", "/", "x">> }

\* candidate values of opts.Ref
Refs == { <<>>, <<"main">> }

\* the keys getAuthOpts recognises, and one it does not
SecretK8sCoreV1SSHAuthPrivateKey == "ssh-privatekey"
SecretSSHAuthKnownHosts == "ssh-knownhosts"
SecretK8sCorev1BasicAuthUsernameKey == "username"
SecretK8sCorev1BasicAuthPasswordKey == "password"
UnknownSecretKey == "token"

KnownSecretKeys ==
    { SecretK8sCoreV1SSHAuthPrivateKey, SecretSSHAuthKnownHosts,
      SecretK8sCorev1BasicAuthUsernameKey, SecretK8sCorev1BasicAuthPasswordKey }

SecretKeys == KnownSecretKeys \cup {UnknownSecretKey}

\* the value stored under a secret key
SecretVal(name) == <<"val:", name>>

\* what the RefFetcher holds for the configured secret: a lookup error, or
\* the set of keys of secret.Data
Secrets == [err : {TRUE}, data : {{}}] \cup [err : {FALSE}, data : SUBSET SecretKeys]

\* the environment of the invoking process (os.Environ()), with and
\* without an ambient GIT_SSH_COMMAND
AmbientSshCommand == <<"ssh", " ", "-i", " ", "ambient">>
OsEnvs ==
    { << <<"PATH=", "/bin">> >>,
      << <<"PATH=", "/bin">>, <<"GIT_SSH_COMMAND=">> \o AmbientSshCommand >> }

dstPath == <<"dst">>

\* outputs of the git subprocesses whose stdout Retrieve and Tags read
Stdouts == StringsUpTo({"a", "\n"}, MaxOutLen)
Stderrs == { <<"e1">>, <<"e2">> }


\* --------------------------------------------------------------- state
VARIABLES
    opts,       \* Git.opts: URL, Ref, SecretRef (nil or a name), LFSSkipSmudge
    op,         \* the method called on the fetcher: "Retrieve" or "Tags"
    osEnv,      \* environment of the invoking process
    secret,     \* what refFetcher.GetSecret answers for opts.SecretRef
    pc,         \* position in the code
    calls,      \* number of calls made to the RefFetcher and to the TempArea
    authOpts,   \* fetch: authOpts
    authDir,    \* fetch: authDir (<<>> before NewTempDir returned it)
    dirs,       \* file system: existing directories
    files,      \* file system: existing files (path, mode, content)
    writes,     \* every file creation made so far (path, mode)
    env,        \* fetch: env
    sshCmd,     \* fetch: sshCmd
    argss,      \* fetch: argss
    idx,        \* fetch: position of the loop over argss
    procs,      \* every git subprocess started so far, in order
    fetchErr,   \* the error fetch is returning
    out,        \* Retrieve / Tags: out
    info,       \* Retrieve: info
    ret,        \* what the called method returned
    remote,     \* sync model: the commit each ref of the remote points at
    config,     \* sync model: the refs of the directory's git contents
    committed,  \* sync model: the tree and lock file committed with the example
    target,     \* sync model: the vendor directory on disk
    lock,       \* sync model: the lock file on disk
    onlyLocked, \* sync model: example.OnlyLocked
    firstTree,  \* sync model: the target tree as the first sync left it
    tpc         \* sync model: position in example.check

gitVars ==
    << opts, op, osEnv, secret, pc, calls, authOpts, authDir, dirs, files, writes,
       env, sshCmd, argss, idx, procs, fetchErr, out, info, ret >>

syncVars == << remote, config, committed, target, lock, onlyLocked, firstTree, tpc >>

vars == << gitVars, syncVars >>

\* ------------------------------------------------------ values of the code
\* a nil error, and the errors the code builds with fmt.Errorf
NoErr == [kind |-> "nil", msg |-> "", args |-> <<>>, stderr |-> <<>>, cloning |-> FALSE]

Errorf(kind, msg) ==
    [kind |-> kind, msg |-> msg, args |-> <<>>, stderr |-> <<>>, cloning |-> FALSE]

\* fmt.Errorf("Cloning: %s", err)
Cloning(err) == [err EXCEPT !.cloning = TRUE]

\* GitInfo{}
GitInfoZero == [SHA |-> <<>>, Tags |-> <<>>, CommitTitle |-> <<>>]

\* a *string: nil, or a pointer to val
NilStr == [nil |-> TRUE, val |-> <<>>]
PtrStr(v) == [nil |-> FALSE, val |-> v]

\* var opts gitAuthOpts
gitAuthOptsZero ==
    [PrivateKey |-> NilStr, KnownHosts |-> NilStr, Username |-> NilStr, Password |-> NilStr]

IsPresent(o) ==
    ~o.PrivateKey.nil \/ ~o.KnownHosts.nil \/ ~o.Username.nil \/ ~o.Password.nil

\* the mode the credential files are written with (0600)
CredFileMode == 384

NoSecretRef == "nil"
SecretRefs == {NoSecretRef, "secret1"}

\* ----------------------------------------------------------- getAuthOpts
\* The range over secret.Data visits the keys in any order; an unknown key
\* makes it return an error whichever keys were visited before.
secretOpts(s) ==
    [PrivateKey |-> IF SecretK8sCoreV1SSHAuthPrivateKey \in s.data
                    THEN PtrStr(SecretVal(SecretK8sCoreV1SSHAuthPrivateKey)) ELSE NilStr,
     KnownHosts |-> IF SecretSSHAuthKnownHosts \in s.data
                    THEN PtrStr(SecretVal(SecretSSHAuthKnownHosts)) ELSE NilStr,
     Username |-> IF SecretK8sCorev1BasicAuthUsernameKey \in s.data
                  THEN PtrStr(SecretVal(SecretK8sCorev1BasicAuthUsernameKey)) ELSE NilStr,
     Password |-> IF SecretK8sCorev1BasicAuthPasswordKey \in s.data
                  THEN PtrStr(SecretVal(SecretK8sCorev1BasicAuthPasswordKey)) ELSE NilStr]

\* getAuthOpts without the default case of its switch
getAuthOptsIgnoringUnknown(o, s) ==
    IF o.SecretRef = NoSecretRef
    THEN [opts |-> gitAuthOptsZero, err |-> NoErr, consulted |-> 0]
    ELSE IF s.err
    THEN [opts |-> gitAuthOptsZero, err |-> Errorf("secret", "GetSecret"), consulted |-> 1]
    ELSE [opts |-> secretOpts(s), err |-> NoErr, consulted |-> 1]

\* consulted: the number of calls made to refFetcher.GetSecret
getAuthOpts(o, s) ==
    IF o.SecretRef = NoSecretRef
    THEN [opts |-> gitAuthOptsZero, err |-> NoErr, consulted |-> 0]
    ELSE IF s.err
    THEN [opts |-> gitAuthOptsZero, err |-> Errorf("secret", "GetSecret"), consulted |-> 1]
    ELSE IF s.data \ KnownSecretKeys # {}
    THEN [opts |-> gitAuthOptsZero, err |-> Errorf("secret", "Unknown secret field"),
          consulted |-> 1]
    ELSE [opts |-> secretOpts(s), err |-> NoErr, consulted |-> 1]

\* ------------------------------------------------------------------ run
\* the value of variable key in an environment list: exec.Cmd keeps the last
\* of duplicate keys
EnvLookup(envVars, key) ==
    LET hits == {i \in 1..Len(envVars) : envVars[i] # <<>> /\ Head(envVars[i]) = key}
    IN  IF hits = {} THEN [set |-> FALSE, val |-> <<>>]
        ELSE [set |-> TRUE,
              val |-> Tail(envVars[CHOOSE i \in hits : \A j \in hits : j <= i])]

\* a nil []string, and a non-nil one
NilEnv == [nil |-> TRUE, vars |-> <<>>]
EnvOf(envVars) == [nil |-> FALSE, vars |-> envVars]

\* what a git subprocess may do: exit zero with some stdout, or exit
\* non-zero with some stderr
Outcomes(stdouts) ==
    [exit : {0}, stdout : stdouts, stderr : {<<>>}]
        \cup [exit : {1}, stdout : {<<>>, <<"a">>}, stderr : Stderrs]

\* fmt.Errorf("Git %s: %s (stderr: %s)", args, err, stderrBs.String())
runErr(args, stderr) ==
    [kind |-> "git", msg |-> "Git", args |-> args, stderr |-> stderr, cloning |-> FALSE]

\* run: starts git with args in dir; a nil env makes the subprocess inherit
\* the environment of the invoking process
run(args, envp, dir, outcome) ==
    LET effective == IF envp.nil THEN osEnv ELSE envp.vars
        proc == [args |-> args, dir |-> dir,
                 sshCommand |-> EnvLookup(effective, "GIT_SSH_COMMAND="),
                 lfsSkipSmudge |-> EnvLookup(effective, "GIT_LFS_SKIP_SMUDGE="),
                 inFetch |-> ~envp.nil,
                 exit |-> outcome.exit, stderr |-> outcome.stderr]
    IN  IF outcome.exit # 0
        THEN [out |-> <<>>, errOut |-> <<>>, err |-> runErr(args, outcome.stderr),
              proc |-> proc]
        ELSE [out |-> outcome.stdout, errOut |-> outcome.stderr, err |-> NoErr,
              proc |-> proc]

\* ---------------------------------------------------------- file system
\* ioutil.WriteFile(path, content, perm) on a path that does not exist: the
\* file is created with perm and written; a failure may leave the created
\* file behind, empty
WriteFile(path, content, perm) ==
    { [ok |-> TRUE, created |-> {[path |-> path, mode |-> perm, content |-> content]}],
      [ok |-> FALSE, created |-> {}],
      [ok |-> FALSE, created |-> {[path |-> path, mode |-> perm, content |-> <<>>]}] }

WriteLog(created) == {[path |-> f.path, mode |-> f.mode] : f \in created}

Under(path, dir) == HasPrefix(path, dir \o <<"/">>)

\* os.Remove(dir): removes an empty directory only
RemoveNotRecursive(fs, dir) ==
    IF \E f \in fs.files : Under(f.path, dir) THEN fs
    ELSE [dirs |-> fs.dirs \ {dir}, files |-> fs.files]

\* os.RemoveAll(dir)
RemoveAll(fs, dir) ==
    [dirs |-> {d \in fs.dirs : d # dir /\ ~Under(d, dir)},
     files |-> {f \in fs.files : ~Under(f.path, dir)}]

\* ---------------------------------------------------------------- fetch
skeleton == op = "Tags"

\* sshCmd := []string{"ssh", "-o", "ServerAliveInterval=30", ...}
sshCmdBase ==
    << <<"ssh">>, <<"-o">>, <<"ServerAliveInterval=30">>, <<"-o">>, <<"ForwardAgent=no">>,
       <<"-F">>, <<"/dev/null">> >>

\* append(sshCmd, "-i", path, "-o", "IdentitiesOnly=yes")
sshCmdWithKey(cmd, path) == cmd \o << <<"-i">>, path, <<"-o">>, <<"IdentitiesOnly=yes">> >>

\* append(sshCmd, "-o", "StrictHostKeyChecking=yes", "-o", "UserKnownHostsFile="+path)
sshCmdWithKnownHosts(cmd, path) ==
    cmd \o << <<"-o">>, <<"StrictHostKeyChecking=yes">>, <<"-o">>,
              <<"UserKnownHostsFile=">> \o path >>

\* the else branch lost: nothing is appended without known hosts
sshCmdNoKnownHostsDropped(cmd) == cmd

\* append(sshCmd, "-o", "StrictHostKeyChecking=no")
sshCmdNoKnownHosts(cmd) == cmd \o << <<"-o">>, <<"StrictHostKeyChecking=no">> >>

\* the engine's variable put in front of the inherited ones
setSshCommandFirst(envVars, cmd) ==
    << <<"GIT_SSH_COMMAND=">> \o Join(cmd, <<" ">>) >> \o envVars

\* append(env, "GIT_SSH_COMMAND="+strings.Join(sshCmd, " "))
setSshCommand(envVars, cmd) ==
    Append(envVars, <<"GIT_SSH_COMMAND=">> \o Join(cmd, <<" ">>))

\* a prefix test that also lets http:// through
isHTTPSLoose(url) == HasPrefix(url, <<"h", "t", "t", "p">>)

\* strings.HasPrefix(gitUrl, "https://")
isHTTPS(url) == HasPrefix(url, HttpsPrefix)

\* url.Parse fails on an invalid escape
urlParseFails(url) == "%" \in Range(url)

\* gitCredsUrl with User set and Path emptied, as String() prints it
credsURL(url, username, password) ==
    LET rest == SubSeq(url, Len(HttpsPrefix) + 1, Len(url))
        host == Head(Split(rest, "/"))
    IN  HttpsPrefix \o username \o <<":">> \o password \o <<"@">> \o host

gitCredsPath == PathJoin(authDir, ".git-credentials")

\* the argss of fetch with the checkout put before the fetch
fetchArgssCheckoutFirst(url, ref, credsPath, skel) ==
    << << <<"init">> >>,
       << <<"config">>, <<"credential.helper">>, <<"store --file ">> \o credsPath >>,
       << <<"remote">>, <<"add">>, <<"origin">>, url >> >>
    \o (IF skel THEN <<>>
        ELSE << << <<"-c">>, <<"advice.detachedHead=false">>, <<"checkout">>, ref >> >>)
    \o << << <<"fetch">>, <<"origin">> >> >>
    \o (IF skel THEN <<>>
        ELSE << << <<"submodule">>, <<"update">>, <<"--init">>, <<"--recursive">> >> >>)

\* the argss of fetch
fetchArgss(url, ref, credsPath, skel) ==
    << << <<"init">> >>,
       << <<"config">>, <<"credential.helper">>, <<"store --file ">> \o credsPath >>,
       << <<"remote">>, <<"add">>, <<"origin">>, url >>,
       << <<"fetch">>, <<"origin">> >> >>
    \o (IF skel THEN <<>>
        ELSE << << <<"-c">>, <<"advice.detachedHead=false">>, <<"checkout">>, ref >>,
                << <<"submodule">>, <<"update">>, <<"--init">>, <<"--recursive">> >> >>)

\* fetch returns err before its defer statement was reached
FetchReturnsEarly(err) ==
    /\ fetchErr' = err
    /\ pc' = "afterFetch"

\* fetch returns err with the deferred os.RemoveAll(authDir) pending
FetchReturns(err) ==
    /\ fetchErr' = err
    /\ pc' = "defer"

\* the method returns
Return(i, t, err) ==
    /\ ret' = [done |-> TRUE, info |-> i, tags |-> t, err |-> err]
    /\ pc' = "done"

\* ------------------------------------------------- the example's idle state
\* the sync model's variables while the git fetcher is explored
SyncIdle ==
    /\ remote = [r \in {"main"} |-> 1]
    /\ config = <<>>
    /\ committed = [tree |-> <<>>, lock |-> <<>>]
    /\ target = [exists |-> FALSE, tree |-> <<>>]
    /\ lock = [exists |-> FALSE, shas |-> <<>>]
    /\ onlyLocked = FALSE
    /\ firstTree = [set |-> FALSE, tree |-> <<>>]
    /\ tpc = "idle"

\* ----------------------------------------------------------------- Init
\* NewGit(opts, infoLog, refFetcher), then one call of Retrieve or Tags
GitInit ==
    /\ opts \in [URL : URLs, Ref : Refs, SecretRef : SecretRefs, LFSSkipSmudge : BOOLEAN]
    /\ op \in {"Retrieve", "Tags"}
    /\ osEnv \in OsEnvs
    /\ secret \in Secrets
    /\ (opts.SecretRef = NoSecretRef => secret = [err |-> FALSE, data |-> {}])
    /\ pc = op
    /\ calls = [GetSecret |-> 0, NewTempDir |-> 0]
    /\ authOpts = gitAuthOptsZero
    /\ authDir = <<>>
    /\ dirs = {<<"tmp">>, dstPath}
    /\ files = {}
    /\ writes = {}
    /\ env = <<>>
    /\ sshCmd = <<>>
    /\ argss = <<>>
    /\ idx = 0
    /\ procs = <<>>
    /\ fetchErr = NoErr
    /\ out = <<>>
    /\ info = GitInfoZero
    /\ ret = [done |-> FALSE, info |-> GitInfoZero, tags |-> <<>>, err |-> NoErr]

Init == GitInit /\ SyncIdle

\* -------------------------------------------------------------- Retrieve
\* the validation Retrieve starts with: the error it returns, or NoErr
\* Retrieve's validation without its check of the ref
validateRetrieveNoRef(o) ==
    IF Len(o.URL) = 0 THEN Errorf("validation", "Expected non-empty URL") ELSE NoErr

validateRetrieve(o) ==
    IF Len(o.URL) = 0 THEN Errorf("validation", "Expected non-empty URL")
    ELSE IF Len(o.Ref) = 0 THEN Errorf("validation", "Expected non-empty ref")
    ELSE NoErr

Retrieve ==
    /\ pc = "Retrieve"
    /\ IF validateRetrieve(opts) # NoErr
       THEN Return(GitInfoZero, <<>>, validateRetrieve(opts))
       ELSE pc' = "getAuthOpts" /\ UNCHANGED ret
    /\ UNCHANGED syncVars
    /\ UNCHANGED << opts, op, osEnv, secret, calls, authOpts, authDir, dirs, files, writes,
                    env, sshCmd, argss, idx, procs, fetchErr, out, info >>

\* the validation Tags starts with ("not caring about any ref at this point")
validateTags(o) ==
    IF Len(o.URL) = 0 THEN Errorf("validation", "Expected non-empty URL") ELSE NoErr

Tags ==
    /\ pc = "Tags"
    /\ IF validateTags(opts) # NoErr
       THEN Return(GitInfoZero, <<>>, validateTags(opts))
       ELSE pc' = "getAuthOpts" /\ UNCHANGED ret
    /\ UNCHANGED syncVars
    /\ UNCHANGED << opts, op, osEnv, secret, calls, authOpts, authDir, dirs, files, writes,
                    env, sshCmd, argss, idx, procs, fetchErr, out, info >>

\* fetch: authOpts, err := t.getAuthOpts()
fetch_getAuthOpts ==
    /\ pc = "getAuthOpts"
    /\ LET r == getAuthOpts(opts, secret)
       IN  /\ authOpts' = r.opts
           /\ calls' = [calls EXCEPT !.GetSecret = @ + r.consulted]
           /\ IF r.err # NoErr
              THEN FetchReturnsEarly(r.err)
              ELSE pc' = "NewTempDir" /\ UNCHANGED fetchErr
    /\ UNCHANGED syncVars
    /\ UNCHANGED << opts, op, osEnv, secret, authDir, dirs, files, writes,
                    env, sshCmd, argss, idx, procs, out, info, ret >>

\* fetch: authDir, err := tempArea.NewTempDir("git-auth"); defer os.RemoveAll(authDir)
fetch_NewTempDir ==
    /\ pc = "NewTempDir"
    /\ calls' = [calls EXCEPT !.NewTempDir = @ + 1]
    /\ \E ok \in BOOLEAN :
          IF ok
          THEN /\ authDir' = PathJoin(<<"tmp">>, "git-auth")
               /\ dirs' = dirs \cup {PathJoin(<<"tmp">>, "git-auth")}
               /\ pc' = "Environ"
               /\ UNCHANGED fetchErr
          ELSE /\ FetchReturnsEarly(Errorf("tempdir", "NewTempDir"))
               /\ UNCHANGED << authDir, dirs >>
    /\ UNCHANGED syncVars
    /\ UNCHANGED << opts, op, osEnv, secret, authOpts, files, writes,
                    env, sshCmd, argss, idx, procs, out, info, ret >>

\* fetch: env := os.Environ(); if authOpts.IsPresent() { sshCmd := ...
fetch_Environ ==
    /\ pc = "Environ"
    /\ env' = osEnv
    /\ IF IsPresent(authOpts)
       THEN sshCmd' = sshCmdBase /\ pc' = "PrivateKey"
       ELSE pc' = "LFSSkipSmudge" /\ UNCHANGED sshCmd
    /\ UNCHANGED syncVars
    /\ UNCHANGED << opts, op, osEnv, secret, calls, authOpts, authDir, dirs, files, writes,
                    argss, idx, procs, fetchErr, out, info, ret >>

\* fetch: if authOpts.PrivateKey != nil { ... }
fetch_PrivateKey ==
    /\ pc = "PrivateKey"
    /\ IF ~authOpts.PrivateKey.nil
       THEN LET path == PathJoin(authDir, "private-key")
            IN  \E w \in WriteFile(path, authOpts.PrivateKey.val, CredFileMode) :
                   /\ files' = files \cup w.created
                   /\ writes' = writes \cup WriteLog(w.created)
                   /\ IF w.ok
                      THEN /\ sshCmd' = sshCmdWithKey(sshCmd, path)
                           /\ pc' = "KnownHosts"
                           /\ UNCHANGED fetchErr
                      ELSE /\ FetchReturns(Errorf("write", "Writing private key"))
                           /\ UNCHANGED sshCmd
       ELSE pc' = "KnownHosts" /\ UNCHANGED << files, writes, sshCmd, fetchErr >>
    /\ UNCHANGED syncVars
    /\ UNCHANGED << opts, op, osEnv, secret, calls, authOpts, authDir, dirs,
                    env, argss, idx, procs, out, info, ret >>

\* fetch: if authOpts.KnownHosts != nil { ... } else { ... }
fetch_KnownHosts ==
    /\ pc = "KnownHosts"
    /\ IF ~authOpts.KnownHosts.nil
       THEN LET path == PathJoin(authDir, "known-hosts")
            IN  \E w \in WriteFile(path, authOpts.KnownHosts.val, CredFileMode) :
                   /\ files' = files \cup w.created
                   /\ writes' = writes \cup WriteLog(w.created)
                   /\ IF w.ok
                      THEN /\ sshCmd' = sshCmdWithKnownHosts(sshCmd, path)
                           /\ pc' = "setSshCommand"
                           /\ UNCHANGED fetchErr
                      ELSE /\ FetchReturns(Errorf("write", "Writing known hosts"))
                           /\ UNCHANGED sshCmd
       ELSE /\ sshCmd' = sshCmdNoKnownHosts(sshCmd)
            /\ pc' = "setSshCommand"
            /\ UNCHANGED << files, writes, fetchErr >>
    /\ UNCHANGED syncVars
    /\ UNCHANGED << opts, op, osEnv, secret, calls, authOpts, authDir, dirs,
                    env, argss, idx, procs, out, info, ret >>

\* fetch: env = append(env, "GIT_SSH_COMMAND="+strings.Join(sshCmd, " "))
fetch_setSshCommand ==
    /\ pc = "setSshCommand"
    /\ env' = setSshCommand(env, sshCmd)
    /\ pc' = "LFSSkipSmudge"
    /\ UNCHANGED syncVars
    /\ UNCHANGED << opts, op, osEnv, secret, calls, authOpts, authDir, dirs, files, writes,
                    sshCmd, argss, idx, procs, fetchErr, out, info, ret >>

\* fetch: if t.opts.LFSSkipSmudge { env = append(env, "GIT_LFS_SKIP_SMUDGE=1") }
fetch_LFSSkipSmudge ==
    /\ pc = "LFSSkipSmudge"
    /\ env' = IF opts.LFSSkipSmudge THEN Append(env, <<"GIT_LFS_SKIP_SMUDGE=", "1">>) ELSE env
    /\ pc' = "Credentials"
    /\ UNCHANGED syncVars
    /\ UNCHANGED << opts, op, osEnv, secret, calls, authOpts, authDir, dirs, files, writes,
                    sshCmd, argss, idx, procs, fetchErr, out, info, ret >>

\* fetch: if authOpts.Username != nil && authOpts.Password != nil { ... }
fetch_Credentials ==
    /\ pc = "Credentials"
    /\ IF ~authOpts.Username.nil /\ ~authOpts.Password.nil
       THEN IF ~isHTTPS(opts.URL)
            THEN /\ FetchReturns(Errorf("nonhttps", "only supported for https remotes"))
                 /\ UNCHANGED << files, writes >>
            ELSE IF urlParseFails(opts.URL)
            THEN /\ FetchReturns(Errorf("urlparse", "Parsing git remote url"))
                 /\ UNCHANGED << files, writes >>
            ELSE \E w \in WriteFile(gitCredsPath,
                                    credsURL(opts.URL, authOpts.Username.val,
                                             authOpts.Password.val) \o <<"\n">>,
                                    CredFileMode) :
                    /\ files' = files \cup w.created
                    /\ writes' = writes \cup WriteLog(w.created)
                    /\ IF w.ok
                       THEN pc' = "argss" /\ UNCHANGED fetchErr
                       ELSE FetchReturns(Errorf("write", "Writing .git-credentials"))
       ELSE pc' = "argss" /\ UNCHANGED << files, writes, fetchErr >>
    /\ UNCHANGED syncVars
    /\ UNCHANGED << opts, op, osEnv, secret, calls, authOpts, authDir, dirs,
                    env, sshCmd, argss, idx, procs, out, info, ret >>

\* fetch: argss := ...; if !skeleton { argss = append(argss, ...) }
fetch_argss ==
    /\ pc = "argss"
    /\ argss' = fetchArgss(opts.URL, opts.Ref, gitCredsPath, skeleton)
    /\ idx' = 1
    /\ pc' = "loop"
    /\ UNCHANGED syncVars
    /\ UNCHANGED << opts, op, osEnv, secret, calls, authOpts, authDir, dirs, files, writes,
                    env, sshCmd, procs, fetchErr, out, info, ret >>

\* fetch: one iteration of for _, args := range argss
fetch_run ==
    /\ pc = "loop"
    /\ idx <= Len(argss)
    /\ \E o \in Outcomes({<<>>}) :
          LET r == run(argss[idx], EnvOf(env), dstPath, o)
          IN  /\ procs' = Append(procs, r.proc)
              /\ IF r.err # NoErr
                 THEN FetchReturns(r.err) /\ UNCHANGED idx
                 ELSE idx' = idx + 1 /\ UNCHANGED << pc, fetchErr >>
    /\ UNCHANGED syncVars
    /\ UNCHANGED << opts, op, osEnv, secret, calls, authOpts, authDir, dirs, files, writes,
                    env, sshCmd, argss, out, info, ret >>

\* fetch: return nil after the loop
fetch_returnNil ==
    /\ pc = "loop"
    /\ idx > Len(argss)
    /\ FetchReturns(NoErr)
    /\ UNCHANGED syncVars
    /\ UNCHANGED << opts, op, osEnv, secret, calls, authOpts, authDir, dirs, files, writes,
                    env, sshCmd, argss, idx, procs, out, info, ret >>

\* fetch: the deferred os.RemoveAll(authDir), run as fetch returns
fetch_defer ==
    /\ pc = "defer"
    /\ LET fs == RemoveAll([dirs |-> dirs, files |-> files], authDir)
       IN  dirs' = fs.dirs /\ files' = fs.files
    /\ pc' = "afterFetch"
    /\ UNCHANGED syncVars
    /\ UNCHANGED << opts, op, osEnv, secret, calls, authOpts, authDir, writes,
                    env, sshCmd, argss, idx, procs, fetchErr, out, info, ret >>

\* Retrieve: if err != nil { return GitInfo{}, fmt.Errorf("Cloning: %s", err) }
Retrieve_afterFetch ==
    /\ pc = "afterFetch"
    /\ op = "Retrieve"
    /\ IF fetchErr # NoErr
       THEN Return(GitInfoZero, <<>>, Cloning(fetchErr)) /\ UNCHANGED info
       ELSE info' = GitInfoZero /\ pc' = "rev-parse" /\ UNCHANGED ret
    /\ UNCHANGED syncVars
    /\ UNCHANGED << opts, op, osEnv, secret, calls, authOpts, authDir, dirs, files, writes,
                    env, sshCmd, argss, idx, procs, fetchErr, out >>

\* Retrieve: out, _, err := t.run({"rev-parse", "HEAD"}, nil, dstPath)
Retrieve_revParse ==
    /\ pc = "rev-parse"
    /\ \E o \in Outcomes(Stdouts) :
          LET r == run(<< <<"rev-parse">>, <<"HEAD">> >>, NilEnv, dstPath, o)
          IN  /\ procs' = Append(procs, r.proc)
              /\ out' = r.out
              /\ IF r.err # NoErr
                 THEN Return(GitInfoZero, <<>>, r.err) /\ UNCHANGED info
                 ELSE /\ info' = [info EXCEPT !.SHA = TrimSpace(r.out)]
                      /\ pc' = "describe"
                      /\ UNCHANGED ret
    /\ UNCHANGED syncVars
    /\ UNCHANGED << opts, op, osEnv, secret, calls, authOpts, authDir, dirs, files, writes,
                    env, sshCmd, argss, idx, fetchErr >>

\* the tags filled whether or not describe failed
describeTagsAlways(tags, err, stdout) == Split(TrimSpace(stdout), "\n")

\* if err == nil { info.Tags = strings.Split(strings.TrimSpace(out), "\n") }
describeTags(tags, err, stdout) ==
    IF err = NoErr THEN Split(TrimSpace(stdout), "\n") ELSE tags

\* Retrieve: out, _, err = t.run({"describe", "--tags", info.SHA}, nil, dstPath)
Retrieve_describe ==
    /\ pc = "describe"
    /\ \E o \in Outcomes(Stdouts) :
          LET r == run(<< <<"describe">>, <<"--tags">>, info.SHA >>, NilEnv, dstPath, o)
          IN  /\ procs' = Append(procs, r.proc)
              /\ out' = r.out
              /\ info' = [info EXCEPT !.Tags = describeTags(@, r.err, o.stdout)]
              /\ pc' = "log"
    /\ UNCHANGED syncVars
    /\ UNCHANGED << opts, op, osEnv, secret, calls, authOpts, authDir, dirs, files, writes,
                    env, sshCmd, argss, idx, fetchErr, ret >>

\* the record Retrieve returns when log fails: GitInfo{}
logFailedInfoPartial(i) == i

logFailedInfo(i) == GitInfoZero

\* Retrieve: out, _, err = t.run({"log", "-n", "1", "--pretty=%B", info.SHA}, nil, dstPath)
Retrieve_log ==
    /\ pc = "log"
    /\ \E o \in Outcomes(Stdouts) :
          LET r == run(<< <<"log">>, <<"-n">>, <<"1">>, <<"--pretty=%B">>, info.SHA >>,
                       NilEnv, dstPath, o)
          IN  /\ procs' = Append(procs, r.proc)
              /\ out' = r.out
              /\ IF r.err # NoErr
                 THEN Return(logFailedInfo(info), <<>>, r.err) /\ UNCHANGED info
                 ELSE /\ info' = [info EXCEPT !.CommitTitle = TrimSpace(r.out)]
                      /\ Return([info EXCEPT !.CommitTitle = TrimSpace(r.out)], <<>>, NoErr)
    /\ UNCHANGED syncVars
    /\ UNCHANGED << opts, op, osEnv, secret, calls, authOpts, authDir, dirs, files, writes,
                    env, sshCmd, argss, idx, fetchErr >>

\* Tags: if err != nil { return nil, fmt.Errorf("Cloning: %s", err) }
Tags_afterFetch ==
    /\ pc = "afterFetch"
    /\ op = "Tags"
    /\ IF fetchErr # NoErr
       THEN Return(GitInfoZero, <<>>, Cloning(fetchErr))
       ELSE pc' = "tag" /\ UNCHANGED ret
    /\ UNCHANGED syncVars
    /\ UNCHANGED << opts, op, osEnv, secret, calls, authOpts, authDir, dirs, files, writes,
                    env, sshCmd, argss, idx, procs, fetchErr, out, info >>

\* Tags: out, _, err := t.run({"tag", "-l"}, nil, dstPath)
Tags_tag ==
    /\ pc = "tag"
    /\ \E o \in Outcomes(Stdouts) :
          LET r == run(<< <<"tag">>, <<"-l">> >>, NilEnv, dstPath, o)
          IN  /\ procs' = Append(procs, r.proc)
              /\ out' = r.out
              /\ IF r.err # NoErr
                 THEN Return(GitInfoZero, <<>>, r.err)
                 ELSE Return(GitInfoZero, Split(r.out, "\n"), NoErr)
    /\ UNCHANGED syncVars
    /\ UNCHANGED << opts, op, osEnv, secret, calls, authOpts, authDir, dirs, files, writes,
                    env, sshCmd, argss, idx, fetchErr, info >>

Next ==
    \/ Retrieve
    \/ Tags
    \/ fetch_getAuthOpts
    \/ fetch_NewTempDir
    \/ fetch_Environ
    \/ fetch_PrivateKey
    \/ fetch_KnownHosts
    \/ fetch_setSshCommand
    \/ fetch_LFSSkipSmudge
    \/ fetch_Credentials
    \/ fetch_argss
    \/ fetch_run
    \/ fetch_returnNil
    \/ fetch_defer
    \/ Retrieve_afterFetch
    \/ Retrieve_revParse
    \/ Retrieve_describe
    \/ Retrieve_log
    \/ Tags_afterFetch
    \/ Tags_tag

Spec == Init /\ [][Next]_vars

\* ======================================================================
\* Properties of the git fetcher
\* ======================================================================
FetchProcs == {i \in 1..Len(procs) : procs[i].inFetch}

\* the secret resolves and holds both a username and a password
SuppliesUserPass ==
    /\ opts.SecretRef # NoSecretRef
    /\ ~secret.err
    /\ {"username", "password"} \subseteq secret.data

\* the secret resolves and holds known hosts
SuppliesKnownHosts ==
    /\ opts.SecretRef # NoSecretRef
    /\ ~secret.err
    /\ "ssh-knownhosts" \in secret.data

\* the nine commands of a Retrieve, in the order the claim gives them
C1_Commands ==
    << << <<"init">> >>,
       << <<"config">>, <<"credential.helper">>,
          <<"store --file ">> \o authDir \o <<"/", ".git-credentials">> >>,
       << <<"remote">>, <<"add">>, <<"origin">>, opts.URL >>,
       << <<"fetch">>, <<"origin">> >>,
       << <<"-c">>, <<"advice.detachedHead=false">>, <<"checkout">>, opts.Ref >>,
       << <<"submodule">>, <<"update">>, <<"--init">>, <<"--recursive">> >>,
       << <<"rev-parse">>, <<"HEAD">> >>,
       << <<"describe">>, <<"--tags">>, info.SHA >>,
       << <<"log">>, <<"-n">>, <<"1">>, <<"--pretty=%B">>, info.SHA >> >>

\* C1 as stated: the git subprocesses of a Retrieve are, in order, a prefix
\* of init, config credential.helper, remote add origin, fetch origin,
\* checkout, submodule update, rev-parse HEAD, describe --tags, log, all run
\* in destDir; one of the first six is started only if every command before
\* it exited zero; and after the first non-zero exit no later git command
\* runs.
C1_NothingAfterAnyFailure ==
    op = "Retrieve" =>
        /\ Len(procs) <= 9
        /\ \A i \in 1..Len(procs) :
              /\ procs[i].args = C1_Commands[i]
              /\ procs[i].dir = <<"dst">>
              /\ i <= 6 => \A j \in 1..(i - 1) : procs[j].exit = 0
              /\ procs[i].exit # 0 => Len(procs) = i

\* C1 (amended): the same order, directory and condition on the first six;
\* a non-zero exit of any command but describe is the last command of the
\* run, while a describe that exits non-zero is still followed by log.
C1_OrderAndFailFast ==
    op = "Retrieve" =>
        /\ Len(procs) <= 9
        /\ \A i \in 1..Len(procs) :
              /\ procs[i].args = C1_Commands[i]
              /\ procs[i].dir = <<"dst">>
              /\ i <= 6 => \A j \in 1..(i - 1) : procs[j].exit = 0
              /\ (procs[i].exit # 0 /\ i # 8) => Len(procs) = i
        /\ (ret.done /\ Len(procs) >= 8 /\ procs[8].exit # 0) => Len(procs) = 9

C1_Witness ==
    /\ op = "Retrieve"
    /\ ret.done
    /\ ret.err = NoErr
    /\ Len(procs) = 9

\* C2: every credential file is created with mode 0600 inside the auth dir
\* the TempArea handed out, and once fetch has returned after that dir was
\* created neither the dir nor any file written into it exists.
C2_CredentialFilesScoped ==
    /\ \A w \in writes :
          /\ w.mode = 384
          /\ authDir # <<>>
          /\ HasPrefix(w.path, authDir \o <<"/">>)
          /\ HasPrefix(authDir, <<"tmp", "/">>)
          /\ w.path[Len(w.path)] \in {"private-key", "known-hosts", ".git-credentials"}
    /\ \A f \in files : f.mode = 384 /\ [path |-> f.path, mode |-> f.mode] \in writes
    /\ (authDir # <<>> /\ pc \in {"afterFetch", "rev-parse", "describe", "log", "tag", "done"})
          => /\ authDir \notin dirs
             /\ files = {}

C2_Witness ==
    /\ ret.done
    /\ ret.err.kind = "write"
    /\ Cardinality(writes) = 3

\* C3 as stated: every git subprocess fetch starts sees the SSH command the
\* engine built as GIT_SSH_COMMAND, whatever the secret and the ambient
\* environment are.
C3_AlwaysOverrides ==
    \A i \in FetchProcs :
        /\ procs[i].sshCommand.set
        /\ sshCmd # <<>>
        /\ procs[i].sshCommand.val = Join(sshCmd, <<" ">>)

\* C3 (amended): when the resolved secret holds at least one recognised
\* field, every git subprocess fetch starts sees the SSH command the engine
\* built, whatever the ambient GIT_SSH_COMMAND is; when it holds none (or no
\* secretRef is configured) the subprocesses see the ambient value unchanged.
C3_OverridesWhenAuthPresent ==
    \A i \in FetchProcs :
        IF opts.SecretRef # NoSecretRef /\ secret.data # {}
        THEN /\ procs[i].sshCommand.set
             /\ procs[i].sshCommand.val = Join(sshCmd, <<" ">>)
             /\ "ForwardAgent=no" \in Range(procs[i].sshCommand.val)
             /\ procs[i].sshCommand.val # AmbientSshCommand
        ELSE procs[i].sshCommand = EnvLookup(osEnv, "GIT_SSH_COMMAND=")

C3_Witness ==
    /\ FetchProcs # {}
    /\ secret.data = {"username"}
    /\ EnvLookup(osEnv, "GIT_SSH_COMMAND=").set

\* the GIT_SSH_COMMAND values the engine added to env
C4_Built == {Tail(env[i]) : i \in {j \in (Len(osEnv) + 1)..Len(env) :
                                      Head(env[j]) = "GIT_SSH_COMMAND="}}

\* C4: the SSH command the engine puts into env pins ServerAliveInterval=30,
\* ForwardAgent=no and -F /dev/null; it holds StrictHostKeyChecking=yes, with
\* UserKnownHostsFile naming the written known-hosts file, exactly when the
\* secret supplies known hosts, and StrictHostKeyChecking=no otherwise; the
\* command under construction never holds both.
C4_SshCommandPinned ==
    /\ ~({"StrictHostKeyChecking=yes", "StrictHostKeyChecking=no"}
            \subseteq Range(Join(sshCmd, <<" ">>)))
    /\ (pc \in {"LFSSkipSmudge", "Credentials", "argss", "loop"} /\ secret.data # {})
          => C4_Built # {}
    /\ \A v \in C4_Built :
          /\ Contains(v, <<"-o", " ", "ServerAliveInterval=30">>)
          /\ Contains(v, <<"-o", " ", "ForwardAgent=no">>)
          /\ Contains(v, <<"-F", " ", "/dev/null">>)
          /\ "StrictHostKeyChecking=yes" \in Range(v) <=> SuppliesKnownHosts
          /\ "StrictHostKeyChecking=no" \in Range(v) <=> ~SuppliesKnownHosts
          /\ SuppliesKnownHosts =>
                /\ Contains(v, <<"-o", " ", "UserKnownHostsFile=">>
                                   \o authDir \o <<"/", "known-hosts">>)
                /\ [path |-> authDir \o <<"/", "known-hosts">>, mode |-> 384] \in writes

C4_Witness ==
    /\ C4_Built # {}
    /\ SuppliesKnownHosts
    /\ FetchProcs # {}

\* C5: when the secret supplies a username and a password and the URL does
\* not begin with https://, no credential-store file is written, no git
\* subprocess is started, and the method returns an error.
C5_UserPassNeedsHTTPS ==
    (SuppliesUserPass /\ ~HasPrefix(opts.URL, <<"h", "t", "t", "p", "s", ":", "/", "/">>))
        => /\ procs = <<>>
           /\ \A w \in writes : w.path[Len(w.path)] # ".git-credentials"
           /\ ret.done => (ret.err # NoErr /\ ret.info = GitInfoZero)
           /\ pc # "argss"

C5_Witness ==
    /\ op = "Retrieve"
    /\ ret.done
    /\ ret.err.kind = "nonhttps"
    /\ ret.err.cloning

\* C6: Retrieve with an empty URL or an empty ref returns a validation error
\* and the zero GitInfo without consulting the RefFetcher, asking the TempArea
\* for a dir, writing a file or starting git.
C6_ValidationFirst ==
    (op = "Retrieve" /\ (opts.URL = <<>> \/ opts.Ref = <<>>))
        => /\ calls.GetSecret = 0
           /\ calls.NewTempDir = 0
           /\ writes = {}
           /\ files = {}
           /\ procs = <<>>
           /\ pc \in {"Retrieve", "done"}
           /\ ret.done => (ret.err.kind = "validation" /\ ret.info = GitInfoZero)

C6_Witness ==
    /\ op = "Retrieve"
    /\ ret.done
    /\ opts.URL # <<>>
    /\ opts.Ref = <<>>
    /\ opts.SecretRef # NoSecretRef

\* C7: when describe exits non-zero and every other command exits zero,
\* Retrieve still runs log and returns success with the SHA and the commit
\* title taken from rev-parse and log and with no tags; a Retrieve that
\* succeeds had no failure but describe's; tags are set only when describe
\* exited zero.
C7_DescribeSoftFailure ==
    op = "Retrieve" =>
        /\ (pc = "describe") => info.SHA = TrimSpace(out)
        /\ (info.Tags # <<>> \/ ret.info.Tags # <<>>)
              => (Len(procs) >= 8 /\ procs[8].exit = 0)
        /\ (ret.done /\ ret.err = NoErr)
              => /\ Len(procs) = 9
                 /\ \A i \in 1..9 : i # 8 => procs[i].exit = 0
                 /\ ret.info.SHA = info.SHA
                 /\ ret.info.SHA = procs[8].args[3]
                 /\ ret.info.CommitTitle = TrimSpace(out)
        /\ (ret.done /\ Len(procs) >= 8 /\ procs[8].exit # 0
                /\ \A i \in 1..Len(procs) : i # 8 => procs[i].exit = 0)
              => /\ Len(procs) = 9
                 /\ Head(procs[9].args) = <<"log">>
                 /\ ret.err = NoErr
                 /\ ret.info.Tags = <<>>

C7_Witness ==
    /\ op = "Retrieve"
    /\ ret.done
    /\ ret.err = NoErr
    /\ procs[8].exit # 0
    /\ ret.info.SHA # <<>>
    /\ ret.info.CommitTitle # <<>>

\* C8: Retrieve returns a GitInfo other than the zero one only if the six
\* fetch commands, rev-parse and log all exited zero; when a command other
\* than describe exits non-zero it returns an error carrying that command's
\* stderr; every error comes with the zero GitInfo.
C8_FailureIsTotal ==
    (op = "Retrieve" /\ ret.done) =>
        /\ ret.info # GitInfoZero
              => (Len(procs) = 9 /\ \A i \in {1, 2, 3, 4, 5, 6, 7, 9} : procs[i].exit = 0)
        /\ ret.err # NoErr => ret.info = GitInfoZero
        /\ \A i \in 1..Len(procs) :
              (procs[i].exit # 0 /\ Head(procs[i].args) # <<"describe">>)
                  => /\ ret.err.kind = "git"
                     /\ ret.err.args = procs[i].args
                     /\ ret.err.stderr = procs[i].stderr
                     /\ ret.info = GitInfoZero

C8_Witness ==
    /\ op = "Retrieve"
    /\ ret.done
    /\ Len(procs) = 9
    /\ procs[9].exit # 0
    /\ procs[9].stderr = <<"e2">>
    /\ info.SHA # <<>>
    /\ info.Tags # <<>>

\* C10: when GetSecret fails or the secret holds a field other than the four
\* recognised ones, fetch returns an error without asking for an auth dir,
\* writing a file or starting git; with no secretRef the RefFetcher is never
\* consulted.
C10_SecretFailureFirst ==
    /\ (opts.SecretRef # NoSecretRef
          /\ (secret.err
                \/ ~(secret.data \subseteq
                        {"ssh-privatekey", "ssh-knownhosts", "username", "password"})))
          => /\ calls.NewTempDir = 0
             /\ authDir = <<>>
             /\ writes = {}
             /\ files = {}
             /\ procs = <<>>
             /\ pc \in {"Retrieve", "Tags", "getAuthOpts", "afterFetch", "done"}
             /\ pc = "afterFetch" => fetchErr.kind = "secret"
             /\ ret.done => ret.err.kind \in {"validation", "secret"}
    /\ opts.SecretRef = NoSecretRef => calls.GetSecret = 0
    /\ calls.GetSecret <= 1

C10_Witness ==
    /\ ret.done
    /\ ret.err.kind = "secret"
    /\ ret.err.msg = "Unknown secret field"
    /\ secret.data = {"username", "password", "token"}

\* ======================================================================
\* The example round trip: example.check driving sync and sync --locked
\* ======================================================================
\* the git fetcher's variables while the example test is explored
GitIdle ==
    /\ opts = [URL |-> <<>>, Ref |-> <<>>, SecretRef |-> NoSecretRef, LFSSkipSmudge |-> FALSE]
    /\ op = "Retrieve"
    /\ osEnv = <<>>
    /\ secret = [err |-> FALSE, data |-> {}]
    /\ pc = "idle"
    /\ calls = [GetSecret |-> 0, NewTempDir |-> 0]
    /\ authOpts = gitAuthOptsZero
    /\ authDir = <<>>
    /\ dirs = {}
    /\ files = {}
    /\ writes = {}
    /\ env = <<>>
    /\ sshCmd = <<>>
    /\ argss = <<>>
    /\ idx = 0
    /\ procs = <<>>
    /\ fetchErr = NoErr
    /\ out = <<>>
    /\ info = GitInfoZero
    /\ ret = [done |-> FALSE, info |-> GitInfoZero, tags |-> <<>>, err |-> NoErr]

Commits == 1..NCommits
SyncRefs == {"main", "dev"}

\* the configs of the example: one directory with 1..MaxContents git contents,
\* each content given by its ref
Configs == UNION {[1..n -> SyncRefs] : n \in 1..MaxContents}

\* the files of the tree at a commit
CommitTree(c) == {<<"src/a.go", c>>, <<"LICENSE", 0>>}

\* the target tree assembled from the contents' commits, one subtree each
TreeOfShas(shas) == [i \in 1..Len(shas) |-> CommitTree(shas[i])]

\* a fresh sync resolves each content's ref on the remote
resolveShas(cfg, rem) == [i \in 1..Len(cfg) |-> rem[cfg[i]]]

\* a locked sync that resolves the refs again
lockedShasFromRemote(cfg, rem, lk) == resolveShas(cfg, rem)

\* --locked substitutes the pinned SHA for ref
lockedShas(cfg, rem, lk) == lk.shas

\* vendir sync: on success the target holds the contents' trees and the lock
\* file pins their SHAs; on failure the target is left as it was and no lock
\* is written
sync(cfg, rem, tgt, lk, ok) ==
    IF ok
    THEN [err |-> FALSE,
          target |-> [exists |-> TRUE, tree |-> TreeOfShas(resolveShas(cfg, rem))],
          lock |-> [exists |-> TRUE, shas |-> resolveShas(cfg, rem)]]
    ELSE [err |-> TRUE, target |-> tgt, lock |-> lk]

\* vendir sync --locked: fails without a lock entry per content
syncLocked(cfg, rem, tgt, lk, ok) ==
    IF ok /\ lk.exists /\ Len(lk.shas) = Len(cfg)
    THEN [err |-> FALSE,
          target |-> [exists |-> TRUE, tree |-> TreeOfShas(lockedShas(cfg, rem, lk))],
          lock |-> [exists |-> TRUE, shas |-> lockedShas(cfg, rem, lk)]]
    ELSE [err |-> TRUE, target |-> tgt, lock |-> lk]

\* gitDiffExamplesDir: empty when the example's directory equals what is
\* committed
gitDiffExamplesDir(tgt, lk, com) ==
    IF tgt.exists /\ tgt.tree = com.tree /\ lk.exists /\ lk.shas = com.lock
    THEN "" ELSE "diff"

\* the example as committed: its vendor directory and lock file come from an
\* earlier sync; the vendor directory may be missing from the checkout
SyncInit ==
    /\ GitIdle
    /\ remote \in [SyncRefs -> Commits]
    /\ config \in Configs
    /\ \E shas \in [1..Len(config) -> Commits] :
          committed = [tree |-> TreeOfShas(shas), lock |-> shas]
    /\ \E present \in BOOLEAN :
          target = [exists |-> present,
                    tree |-> IF present THEN committed.tree ELSE <<>>]
    /\ lock = [exists |-> TRUE, shas |-> committed.lock]
    /\ onlyLocked \in BOOLEAN
    /\ firstTree = [set |-> FALSE, tree |-> <<>>]
    /\ tpc = "stat"

\* check: vendorDir, err := os.Stat(vendorPath); the directory must exist
check_stat ==
    /\ tpc = "stat"
    /\ tpc' = IF target.exists THEN "removeAll" ELSE "failed"
    /\ UNCHANGED << remote, config, committed, target, lock, onlyLocked, firstTree >>
    /\ UNCHANGED gitVars

\* check: err = os.RemoveAll(vendorPath)
check_removeAll ==
    /\ tpc = "removeAll"
    /\ \E ok \in BOOLEAN :
          IF ok
          THEN /\ target' = [exists |-> FALSE, tree |-> <<>>]
               /\ tpc' = IF onlyLocked THEN "syncLocked" ELSE "sync"
          ELSE /\ tpc' = "failed"
               /\ UNCHANGED target
    /\ UNCHANGED << remote, config, committed, lock, onlyLocked, firstTree >>
    /\ UNCHANGED gitVars

\* check: if !et.OnlyLocked { vendir sync; the diff must be empty }
check_sync ==
    /\ tpc = "sync"
    /\ \E ok \in BOOLEAN :
          LET r == sync(config, remote, target, lock, ok)
          IN  /\ target' = r.target
              /\ lock' = r.lock
              /\ firstTree' = IF r.err THEN firstTree
                              ELSE [set |-> TRUE, tree |-> r.target.tree]
              /\ tpc' = IF r.err THEN "failed"
                        ELSE IF gitDiffExamplesDir(r.target, r.lock, committed) # ""
                        THEN "failed"
                        ELSE "syncLocked"
    /\ UNCHANGED << remote, config, committed, onlyLocked >>
    /\ UNCHANGED gitVars

\* check: vendir sync --locked; the diff must be empty
check_syncLocked ==
    /\ tpc = "syncLocked"
    /\ \E ok \in BOOLEAN :
          LET r == syncLocked(config, remote, target, lock, ok)
          IN  /\ target' = r.target
              /\ lock' = r.lock
              /\ tpc' = IF r.err THEN "failed"
                        ELSE IF gitDiffExamplesDir(r.target, r.lock, committed) # ""
                        THEN "lockedDiff"
                        ELSE "passed"
    /\ UNCHANGED << remote, config, committed, onlyLocked, firstTree >>
    /\ UNCHANGED gitVars

\* the remote is edited while the example runs: a ref moves to another commit
RemoteEdit ==
    /\ tpc \in {"stat", "removeAll", "sync", "syncLocked"}
    /\ \E r \in SyncRefs, c \in Commits :
          /\ remote[r] # c
          /\ remote' = [remote EXCEPT ![r] = c]
    /\ UNCHANGED << config, committed, target, lock, onlyLocked, firstTree, tpc >>
    /\ UNCHANGED gitVars

SyncNext ==
    \/ check_stat
    \/ check_removeAll
    \/ check_sync
    \/ check_syncLocked
    \/ RemoteEdit

SyncSpec == SyncInit /\ [][SyncNext]_vars

=============================================================================
